---- MODULE Spec2Model ----
(***************************************************************************)
(* State-machine model of the ArtworkDataTable component                   *)
(* (src/src/components/Showcase.tsx): a server-paginated table with a      *)
(* cross-page "select N rows" control.                                     *)
(*                                                                         *)
(* React state is modelled as the committed values of the useState cells;  *)
(* an event handler or the continuation of an awaited fetch is one atomic  *)
(* step whose setState calls are applied together.  A fetch in flight      *)
(* keeps the values its closure captured when fetchArtworks was called     *)
(* (page, rows, selectedArtworks of that render); remainingToSelect is a   *)
(* useRef cell and is always read live.                                    *)
(***************************************************************************)
EXTENDS Integers, Sequences, FiniteSets, Bags, TLC

(***************************************************************************)
(* Bounds of the model.                                                    *)
(***************************************************************************)
\* number of records of the remote catalogue (pagination.total)
CatalogSize == 3
\* rows per page (scaled-down stand-in for the initial value of `rows`)
PageSize == 2
\* largest count typed into the bulk-select input
MaxSelect == 3
\* largest number of fetches outstanding at once
MaxInflight == 2

(***************************************************************************)
(* JavaScript values: null/undefined, numbers and strings are kept apart   *)
(* by a tag so that || and === can be modelled by what they do.            *)
(***************************************************************************)
Null == [t |-> "null"]

Num(n) == [t |-> "num", n |-> n]

Str(s) == [t |-> "str", s |-> s]

\* the values that JavaScript's || treats as false
Falsy(v) == v = Null \/ v = Num(0) \/ v = Str("")

\* a || b
OrElse(a, b) == IF Falsy(a) THEN b ELSE a

Min(a, b) == IF a <= b THEN a ELSE b

Max(a, b) == IF a >= b THEN a ELSE b

(***************************************************************************)
(* The remote data source: a stable catalogue of records with identifiers  *)
(* 1..CatalogSize.  Some records lack optional fields.                     *)
(***************************************************************************)
Ids == 1..CatalogSize

RawArtwork(id) ==
  [ id |-> id,
    place_of_origin |-> IF id % 2 = 0 THEN Null ELSE Str("France"),
    date_start |-> CASE id % 4 = 0 -> Null
                     [] id % 4 = 3 -> Null
                     [] OTHER -> Num(1900),
    date_end |-> CASE id % 4 = 3 -> Null
                   [] id % 4 = 1 -> Num(1900)
                   [] OTHER -> Num(1905) ]

\* data.data of the response to ?page=p&limit=r
RawPage(p, r) ==
  LET lo == (p - 1) * r + 1
      hi == Min(p * r, CatalogSize)
  IN  [i \in 1..Max(0, hi - lo + 1) |-> RawArtwork(lo + i - 1)]

\* the object fetchArtworks builds for one record of the response
Transform(artwork) ==
  [ id |-> artwork.id,
    place_of_origin |-> OrElse(artwork.place_of_origin, Str("Unknown")),
    date_start |-> OrElse(artwork.date_start, Str("N/A")),
    date_end |-> OrElse(artwork.date_end, Str("N/A")) ]

\* transformedData = data.data.map(...)
TransformedData(p, r) ==
  LET raw == RawPage(p, r) IN [i \in 1..Len(raw) |-> Transform(raw[i])]

RECURSIVE NatText(_)
\* decimal digits of a natural number, as a string
NatText(n) ==
  IF n < 10
  THEN CASE n = 0 -> "0" [] n = 1 -> "1" [] n = 2 -> "2" [] n = 3 -> "3"
         [] n = 4 -> "4" [] n = 5 -> "5" [] n = 6 -> "6" [] n = 7 -> "7"
         [] n = 8 -> "8" [] n = 9 -> "9"
  ELSE NatText(n \div 10) \o NatText(n % 10)

\* `${v}`, and the text React renders for v: a number becomes its decimal
\* digits, a string is itself
ToText(v) ==
  IF v.t = "num"
  THEN (IF v.n < 0 THEN "-" \o NatText(0 - v.n) ELSE NatText(v.n))
  ELSE v.s

\* dateTemplate with the comparison dropped: always the range
dateTemplateAlwaysRange(rowData) ==
  Str(ToText(rowData.date_start) \o " - " \o ToText(rowData.date_end))

\* body of the Date column; === compares without conversion
dateTemplate(rowData) ==
  IF rowData.date_start = rowData.date_end
  THEN rowData.date_start
  ELSE Str(ToText(rowData.date_start) \o " - " \o ToText(rowData.date_end))

(***************************************************************************)
(* The bulk-select input.  Text is a sequence of one-character strings.    *)
(***************************************************************************)
Digits == {"0", "1", "2", "3", "4", "5", "6", "7", "8", "9"}

DigitVal(c) ==
  CASE c = "0" -> 0 [] c = "1" -> 1 [] c = "2" -> 2 [] c = "3" -> 3
    [] c = "4" -> 4 [] c = "5" -> 5 [] c = "6" -> 6 [] c = "7" -> 7
    [] c = "8" -> 8 [] c = "9" -> 9

DigitChar(d) ==
  CASE d = 0 -> "0" [] d = 1 -> "1" [] d = 2 -> "2" [] d = 3 -> "3"
    [] d = 4 -> "4" [] d = 5 -> "5" [] d = 6 -> "6" [] d = 7 -> "7"
    [] d = 8 -> "8" [] d = 9 -> "9"

RECURSIVE StrOfNat(_)
\* decimal text of a natural number
StrOfNat(n) == IF n < 10 THEN <<DigitChar(n)>>
               ELSE Append(StrOfNat(n \div 10), DigitChar(n % 10))

RECURSIVE SkipSpaces(_)
SkipSpaces(s) == IF s # <<>> /\ Head(s) = " " THEN SkipSpaces(Tail(s)) ELSE s

RECURSIVE DigitPrefix(_)
\* the longest prefix of s made of decimal digits
DigitPrefix(s) ==
  IF s # <<>> /\ Head(s) \in Digits THEN <<Head(s)>> \o DigitPrefix(Tail(s)) ELSE <<>>

RECURSIVE DigitsValue(_, _)
DigitsValue(ds, acc) ==
  IF ds = <<>> THEN acc ELSE DigitsValue(Tail(ds), 10 * acc + DigitVal(Head(ds)))

NaN == [t |-> "nan"]

\* JavaScript parseInt(s) in radix 10: leading blanks skipped, an optional
\* sign, then the longest run of digits; NaN when there is no digit
parseInt(s) ==
  LET t == SkipSpaces(s)
      neg == t # <<>> /\ Head(t) = "-"
      u == IF t # <<>> /\ Head(t) \in {"-", "+"} THEN Tail(t) ELSE t
      ds == DigitPrefix(u)
  IN  IF ds = <<>> THEN NaN
      ELSE Num(IF neg THEN 0 - DigitsValue(ds, 0) ELSE DigitsValue(ds, 0))

isNaN(v) == v = NaN

\* a valid floating-point number as an <input type="number"> accepts it:
\* an optional "-", digits, optionally "." and digits
ValidNumberText(s) ==
  LET u == IF s # <<>> /\ Head(s) = "-" THEN Tail(s) ELSE s
      ip == DigitPrefix(u)
      rest == SubSeq(u, Len(ip) + 1, Len(u))
  IN  /\ ip # <<>>
      /\ \/ rest = <<>>
         \/ /\ Head(rest) = "."
            /\ Tail(rest) # <<>>
            /\ DigitPrefix(Tail(rest)) = Tail(rest)

\* e.target.value of the number input for the text the user typed: the
\* control reports the empty string for text that is not a number
NumberInputValue(typed) == IF ValidNumberText(typed) THEN typed ELSE <<>>

\* what the user may type into the input
TypedTexts ==
  { <<>>, <<"a", "b", "c">>, <<"-", "3">>, <<"0">> }
  \cup { StrOfNat(n) : n \in 1..MaxSelect }

(***************************************************************************)
(* State.                                                                  *)
(***************************************************************************)
VARIABLES
  selectedArtworks,   \* useState: object keyed by record id -> Artwork
  artworks,           \* useState: records of the displayed page
  loading,            \* useState: loading indicator
  currentPage,        \* useState: 1-based page index
  totalRecords,       \* useState: pagination.total of the last response
  rows,               \* useState: page size
  rowsToSelect,       \* useState: text of the bulk-select input
  totalSelected,      \* useState: count shown in the badge
  remainingToSelect,  \* useRef: records still to be auto-selected
  inflight,           \* calls of fetchArtworks suspended at their await
  toasts,             \* calls of toastRef.show made by the last step
  latestOk,           \* history: the most recently started fetch has succeeded
  phase,              \* history: "start", then "bulk" since the last accepted submit or
                      \* "cleared" / "clearedMidSweep" since the last Clear Selection
  run                 \* history: the bulk-select run under way (on), or how the
                      \* last step ended one (ended); "failed" after a fetch
                      \* failed with the counter positive (n = the counter)
                      \* and "resumed" after the next successful completion

vars == <<selectedArtworks, artworks, loading, currentPage, totalRecords, rows,
          rowsToSelect, totalSelected, remainingToSelect, inflight, toasts,
          latestOk, phase, run>>

\* {} : the empty object
EmptyObject == <<>>

\* acc[artwork.id] = artwork
Put(acc, artwork) ==
  [k \in DOMAIN acc \cup {artwork.id} |-> IF k = artwork.id THEN artwork ELSE acc[k]]

RECURSIVE PutAll(_, _)
\* list.forEach(a => acc[a.id] = a), also list.reduce((acc, a) => ..., acc)
PutAll(acc, list) ==
  IF list = <<>> THEN acc ELSE PutAll(Put(acc, Head(list)), Tail(list))

\* list.slice(0, k)
SliceFront(list, k) == SubSeq(list, 1, Min(k, Len(list)))

IdsOf(list) == {list[i].id : i \in DOMAIN list}

\* Math.min(remainingToSelect.current, transformedData.length)
ToSelect(remaining, data) == Min(remaining, Len(data))

\* SweepDue with the guard off by one: a counter of zero still sweeps
SweepDueAtZero(remaining) == remaining >= 0

\* the guard of the auto-select block of fetchArtworks
SweepDue(remaining) == remaining > 0

\* SweepSelections starting from an empty object instead of the copy
SweepSelectionsFresh(captured, data, toSelect) ==
  PutAll(EmptyObject, SliceFront(data, toSelect))

\* newSelections of fetchArtworks: a copy of the selectedArtworks the call
\* captured, with the leading toSelect records of the page assigned
SweepSelections(captured, data, toSelect) ==
  PutAll(captured, SliceFront(data, toSelect))

\* the update of remainingToSelect.current spending the whole counter
SweepRemainingSpent(remaining, toSelect) == 0

\* remainingToSelect.current -= toSelect
SweepRemaining(remaining, toSelect) == remaining - toSelect

\* the update of totalSelected written as a plain value, not from prevTotal
SweepTotalFromZero(prevTotal, toSelect) == toSelect

\* setTotalSelected(prevTotal => prevTotal + toSelect)
SweepTotal(prevTotal, toSelect) == prevTotal + toSelect

\* the call a run of fetchArtworks leaves suspended; latest marks the most
\* recently started call
Fetch(page, pageRows, captured, by) ==
  [page |-> page, rows |-> pageRows, sel |-> captured, by |-> by, latest |-> TRUE]

\* the suspended calls once another call has been started
Superseded(calls) ==
  LET old(f) == [f EXCEPT !.latest = FALSE]
      U == {old(f) : f \in BagToSet(calls)}
  IN  [u \in U |-> CopiesIn(u, calls) + CopiesIn([u EXCEPT !.latest = TRUE], calls)]

\* the suspended calls: a bag, as two calls may have captured the same values
Outstanding == BagToSet(inflight)

NoRun == [on |-> FALSE, n |-> 0, first |-> 0, k |-> 0, ended |-> "no"]

\* the run as the step that ends it leaves it
EndRun(how) == IF run.on THEN [run EXCEPT !.on = FALSE, !.ended = how] ELSE NoRun

Init ==
  /\ selectedArtworks = EmptyObject
  /\ artworks = <<>>
  /\ loading = TRUE
  /\ currentPage = 1
  /\ totalRecords = 0
  /\ rows = PageSize
  /\ rowsToSelect = <<>>
  /\ totalSelected = 0
  /\ remainingToSelect = 0
  /\ inflight = SetToBag({Fetch(1, PageSize, EmptyObject, "effect")})
  /\ toasts = 0
  /\ latestOk = FALSE
  /\ phase = "start"
  /\ run = NoRun

(***************************************************************************)
(* fetchArtworks after its await: the response arrived and is well formed. *)
(***************************************************************************)
FetchSucceeds(f) ==
  /\ f \in Outstanding
  /\ LET transformedData == TransformedData(f.page, f.rows)
         toSelect == ToSelect(remainingToSelect, transformedData)
     IN  /\ artworks' = transformedData
         /\ totalRecords' = CatalogSize
         /\ loading' = FALSE
         /\ IF SweepDue(remainingToSelect)
            THEN /\ selectedArtworks' = SweepSelections(f.sel, transformedData, toSelect)
                 /\ remainingToSelect' = SweepRemaining(remainingToSelect, toSelect)
                 /\ totalSelected' = SweepTotal(totalSelected, toSelect)
            ELSE UNCHANGED <<selectedArtworks, remainingToSelect, totalSelected>>
  /\ inflight' = inflight (-) SetToBag({f})
  /\ latestOk' = (f.latest \/ latestOk)
  /\ run' = IF run.on THEN [run EXCEPT !.k = @ + 1]
            ELSE IF run.ended = "failed"
                 THEN [run EXCEPT !.ended = "resumed"]
                 ELSE NoRun
  /\ toasts' = 0
  /\ UNCHANGED <<currentPage, rows, rowsToSelect, phase>>

(***************************************************************************)
(* fetchArtworks after its await, ending in the catch block.  kind is      *)
(* "error" when fetch or response.json() rejects or the body has no data   *)
(* list (nothing was set before the throw), "nopagination" when the body   *)
(* has the list but no pagination object (line 48 ran, line 49 threw).     *)
(***************************************************************************)
FailureKinds == {"error", "nopagination"}

FetchFails(f, kind) ==
  /\ f \in Outstanding
  /\ kind \in FailureKinds
  /\ artworks' = IF kind = "nopagination"
                 THEN TransformedData(f.page, f.rows)
                 ELSE artworks
  /\ loading' = FALSE
  /\ toasts' = 1
  /\ inflight' = inflight (-) SetToBag({f})
  /\ run' = IF remainingToSelect > 0
            THEN [NoRun EXCEPT !.ended = "failed", !.n = remainingToSelect]
            ELSE NoRun
  /\ UNCHANGED <<selectedArtworks, currentPage, totalRecords, rows, rowsToSelect,
                 totalSelected, remainingToSelect, latestOk, phase>>

(***************************************************************************)
(* onPage, followed by the render it causes and the effect on              *)
(* [currentPage, rows]: the effect calls the fetchArtworks of the new      *)
(* render, which captures the new rows and the current selectedArtworks.   *)
(* The paginator has no rows-per-page choice, so event.rows is the rows    *)
(* prop; event.page is one of the pages it shows for totalRecords.         *)
(***************************************************************************)
PageCount == (totalRecords + rows - 1) \div rows

PageEvents ==
  {[page |-> p, rows |-> rows] : p \in 0..(PageCount - 1)} \cup {[rows |-> rows]}

onPage(event) ==
  LET newPage == IF "page" \in DOMAIN event THEN event.page + 1 ELSE currentPage
      effectRuns == newPage # currentPage \/ event.rows # rows
  IN  /\ event \in PageEvents
      /\ effectRuns => BagCardinality(inflight) < MaxInflight
      /\ currentPage' = newPage
      /\ rows' = event.rows
      /\ IF effectRuns
         THEN /\ inflight' = Superseded(inflight) (+)
                   SetToBag({Fetch(newPage, event.rows, selectedArtworks, "effect")})
              /\ loading' = TRUE
              /\ latestOk' = FALSE
         ELSE UNCHANGED <<inflight, loading, latestOk>>
      /\ run' = IF /\ run.on
                   /\ inflight = EmptyBag
                   /\ newPage = currentPage + 1
                   /\ event.rows = rows
                   /\ run.k = currentPage - run.first + 1
                THEN run
                ELSE IF run.ended = "failed" THEN run ELSE NoRun
      /\ UNCHANGED <<selectedArtworks, artworks, totalRecords, rowsToSelect,
                     totalSelected, remainingToSelect, phase>>
      /\ toasts' = 0

(***************************************************************************)
(* onChange of the bulk-select input.                                      *)
(***************************************************************************)
setRowsToSelect(typed) ==
  /\ typed \in TypedTexts
  /\ rowsToSelect' = NumberInputValue(typed)
  /\ rowsToSelect' # rowsToSelect
  /\ toasts' = 0
  /\ run' = IF run.on THEN run ELSE NoRun
  /\ UNCHANGED <<selectedArtworks, artworks, loading, currentPage, totalRecords, rows,
                 totalSelected, remainingToSelect, inflight, latestOk, phase>>

(***************************************************************************)
(* handleRowSelectionSubmit.                                               *)
(***************************************************************************)
\* SubmitFetchPage off by one
SubmitFetchNextPage == currentPage + 1

\* the page handleRowSelectionSubmit fetches again: fetchArtworks(currentPage)
SubmitFetchPage == currentPage

\* Rejected with the comparison off by one: a count of zero is accepted
RejectedNegativeOnly(numRows) == IF isNaN(numRows) THEN TRUE ELSE numRows.n < 0

\* the early return of handleRowSelectionSubmit
Rejected(numRows) == IF isNaN(numRows) THEN TRUE ELSE numRows.n <= 0

SubmitRejected ==
  /\ Rejected(parseInt(rowsToSelect))
  /\ UNCHANGED <<selectedArtworks, artworks, loading, currentPage, totalRecords, rows,
                 rowsToSelect, totalSelected, remainingToSelect, inflight, latestOk,
                 phase>>
  /\ run' = IF run.on THEN run ELSE NoRun
  /\ toasts' = 0

SubmitAccepted ==
  LET numRows == parseInt(rowsToSelect)
  IN  /\ ~Rejected(numRows)
      /\ BagCardinality(inflight) < MaxInflight
      /\ selectedArtworks' = EmptyObject
      /\ totalSelected' = 0
      /\ remainingToSelect' = numRows.n
      /\ rowsToSelect' = <<>>
      \* fetchArtworks(currentPage) of the render the click happened in
      /\ inflight' = Superseded(inflight) (+)
           SetToBag({Fetch(SubmitFetchPage, rows, selectedArtworks, "submit")})
      /\ loading' = TRUE
      /\ latestOk' = FALSE
      /\ phase' = "bulk"
      /\ run' = IF selectedArtworks = EmptyObject /\ inflight = EmptyBag
                THEN [on |-> TRUE, n |-> numRows.n, first |-> currentPage, k |-> 0,
                      ended |-> "no"]
                ELSE NoRun
      /\ toasts' = 0
      /\ UNCHANGED <<artworks, currentPage, totalRecords, rows>>

handleRowSelectionSubmit == SubmitRejected \/ SubmitAccepted

(***************************************************************************)
(* onSelectionChange.  e.value is the table's new selection: rows of the   *)
(* selection prop (Object.values(selectedArtworks)) and of the displayed   *)
(* page, with distinct ids, here in ascending id order.                    *)
(***************************************************************************)
RowById(id) ==
  IF id \in IdsOf(artworks)
  THEN artworks[CHOOSE i \in DOMAIN artworks : artworks[i].id = id]
  ELSE selectedArtworks[id]

RECURSIVE RowsOf(_)
RowsOf(ids) ==
  IF ids = {} THEN <<>>
  ELSE LET m == CHOOSE x \in ids : \A y \in ids : x <= y
       IN  <<RowById(m)>> \o RowsOf(ids \ {m})

Selections ==
  {RowsOf(ids) : ids \in (SUBSET (DOMAIN selectedArtworks \cup IdsOf(artworks)))
                         \ {DOMAIN selectedArtworks}}

\* RemainingAfterSelection without the floor at zero
RemainingAfterSelectionUnfloored(remaining, selection) ==
  IF remaining > 0 THEN remaining - Len(selection) ELSE remaining

\* the new value of remainingToSelect.current in onSelectionChange
RemainingAfterSelection(remaining, selection) ==
  IF remaining > 0 THEN Max(0, remaining - Len(selection)) ELSE remaining

\* ReduceSelection accumulating into the previous selection
ReduceSelectionMerged(selection) == PutAll(selectedArtworks, selection)

\* newSelections of onSelectionChange
ReduceSelection(selection) == PutAll(EmptyObject, selection)

onSelectionChange(selection) ==
  /\ selectedArtworks' = ReduceSelection(selection)
  /\ totalSelected' = Len(selection)
  /\ remainingToSelect' = RemainingAfterSelection(remainingToSelect, selection)
  /\ run' = EndRun("selected")
  /\ selection \in Selections
  /\ UNCHANGED <<artworks, loading, currentPage, totalRecords, rows, rowsToSelect,
                 inflight, latestOk, phase>>
  /\ toasts' = 0

(***************************************************************************)
(* onClick of the "Clear Selection" button.                                *)
(***************************************************************************)
\* ClearedRemaining when the button leaves the counter alone
ClearedRemainingKept == remainingToSelect

\* the value the button stores in remainingToSelect.current
ClearedRemaining == 0

ClearSelection ==
  /\ selectedArtworks' = EmptyObject
  /\ totalSelected' = 0
  /\ remainingToSelect' = ClearedRemaining
  /\ phase' = IF remainingToSelect > 0 /\ inflight # EmptyBag
              THEN "clearedMidSweep" ELSE "cleared"
  /\ run' = NoRun
  /\ UNCHANGED <<artworks, loading, currentPage, totalRecords, rows, rowsToSelect,
                 inflight, latestOk>>
  /\ toasts' = 0

Next ==
  \/ \E f \in Outstanding : FetchSucceeds(f)
  \/ \E f \in Outstanding, kind \in FailureKinds : FetchFails(f, kind)
  \/ \E event \in PageEvents : onPage(event)
  \/ \E typed \in TypedTexts : setRowsToSelect(typed)
  \/ handleRowSelectionSubmit
  \/ \E selection \in Selections : onSelectionChange(selection)
  \/ ClearSelection

Spec == Init /\ [][Next]_vars

TypeOK ==
  /\ DOMAIN selectedArtworks \subseteq Ids
  /\ loading \in BOOLEAN
  /\ currentPage \in 1..CatalogSize
  /\ totalRecords \in {0, CatalogSize}
  /\ rows = PageSize
  /\ totalSelected \in Nat
  /\ remainingToSelect \in Int
  /\ BagCardinality(inflight) <= MaxInflight
  /\ toasts \in 0..1
  /\ latestOk \in BOOLEAN
  /\ \A f \in Outstanding : f.latest => CopiesIn(f, inflight) = 1

(***************************************************************************)
(* Properties.                                                             *)
(***************************************************************************)
SelectedIds == DOMAIN selectedArtworks

\* the record the data source holds for an id, as the table stores it
Stored(id) == Transform(RawArtwork(id))

\* the counter, the badge and the selection
tracker == <<selectedArtworks, totalSelected, remainingToSelect>>

\* the step is the completion of a fetch
Completion ==
  \E f \in Outstanding : FetchSucceeds(f) \/ \E kind \in FailureKinds : FetchFails(f, kind)

\* the step is a manual selection change
ManualChange == \E R \in Selections : onSelectionChange(R)

\* ids of the leading min(c, L) records of the page a fetch asked for
LeadingIds(f, c) ==
  LET lo == (f.page - 1) * f.rows
      len == Max(0, Min(f.page * f.rows, CatalogSize) - lo)
  IN  (lo + 1)..(lo + Min(c, len))

\* a text that is a count: decimal digits only, with a positive value
IsPositiveCount(text) ==
  /\ text # <<>>
  /\ \A i \in DOMAIN text : text[i] \in Digits
  /\ \E i \in DOMAIN text : text[i] # "0"

\* a text that is not a number, or a number that is not positive
IsRejectedText(text) ==
  \/ text = <<>>
  \/ \E i \in DOMAIN text : text[i] \notin Digits \cup {"-", "."}
  \/ Head(text) = "-"
  \/ \A i \in DOMAIN text : text[i] \in {"0", "."}

(***************************************************************************)
(* C1.  A bulk-select run: submit of N with an empty selection and no      *)
(* fetch outstanding, then forward navigation one page at a time, each     *)
(* fetch completing before the next navigation, no manual change.  After   *)
(* the k-th completion the counter is max(0, N - sum), the badge shows     *)
(* min(N, sum) and the selection is exactly the first min(N, sum) records  *)
(* from the start of the page shown at submission, where sum is the total  *)
(* size of the k pages.                                                    *)
(***************************************************************************)
RunOffset == (run.first - 1) * rows

RunSum == Min(run.k * rows, Max(0, CatalogSize - RunOffset))

C1_BulkSelectRun ==
  (run.on /\ run.k >= 1) =>
    /\ remainingToSelect = Max(0, run.n - RunSum)
    /\ totalSelected = Min(run.n, RunSum)
    /\ SelectedIds = (RunOffset + 1)..(RunOffset + Min(run.n, RunSum))
    /\ \A id \in SelectedIds : selectedArtworks[id] = Stored(id)

\* a run of N = 3 over a page of two records and then a page of one
C1_Witness ==
  /\ run.on /\ run.n = 3 /\ run.first = 1 /\ run.k = 2
  /\ remainingToSelect = 0
  /\ totalSelected = 3
  /\ SelectedIds = {1, 2, 3}

(***************************************************************************)
(* C2.  After the fetch started by an accepted submit has completed and    *)
(* swept, the selection holds no record of the selection S0 that existed   *)
(* before the submit, except those swept by that completion or selected    *)
(* again since the submit.  (S0 is what the submit's fetch captured; the   *)
(* submit emptied the selection, so what is selected just before the       *)
(* completion was selected after the submit.)                              *)
(***************************************************************************)
C2_SubmitResetsSelection ==
  [][\A f \in Outstanding :
       (f.by = "submit" /\ FetchSucceeds(f)) =>
         (SelectedIds' \cap DOMAIN f.sel)
            \subseteq (SelectedIds \cup LeadingIds(f, remainingToSelect))]_vars

(***************************************************************************)
(* C3.  A submit of a positive count n empties the selection, zeroes the   *)
(* badge, sets the counter to n, clears the input and starts exactly one   *)
(* fetch, for the current page with the current page size; the page        *)
(* index and the page size are unchanged.                                  *)
(***************************************************************************)
C3_SubmitEffects ==
  [][(IsPositiveCount(rowsToSelect) /\ handleRowSelectionSubmit) =>
       /\ selectedArtworks' = EmptyObject
       /\ totalSelected' = 0
       /\ remainingToSelect' = DigitsValue(rowsToSelect, 0)
       /\ rowsToSelect' = <<>>
       /\ \E f \in BagToSet(inflight') :
            /\ inflight' = Superseded(inflight) (+) SetToBag({f})
            /\ f.page = currentPage
            /\ f.rows = rows
       /\ UNCHANGED <<currentPage, rows>>]_vars

\* a submit of 3 on page 2 over a non-empty selection
C3_Witness ==
  /\ currentPage = 2
  /\ remainingToSelect = 3
  /\ selectedArtworks = EmptyObject
  /\ totalSelected = 0
  /\ \E f \in Outstanding : f.by = "submit" /\ f.page = 2 /\ f.sel # EmptyObject

(***************************************************************************)
(* C4.  Clear Selection empties the selection and zeroes the badge and the *)
(* counter, from any state; from then until the next accepted submit no    *)
(* fetch completion changes the selection, the badge or the counter.       *)
(***************************************************************************)
Cleared == phase \in {"cleared", "clearedMidSweep"}

C4_ClearStopsSweep ==
  [][/\ ClearSelection =>
          /\ selectedArtworks' = EmptyObject
          /\ totalSelected' = 0
          /\ remainingToSelect' = 0
     /\ (Cleared /\ Completion) => UNCHANGED tracker]_vars

\* a clear with the counter positive and a fetch in flight, and that fetch
\* completed successfully afterwards
C4_Witness ==
  /\ phase = "clearedMidSweep"
  /\ inflight = EmptyBag
  /\ selectedArtworks = EmptyObject
  /\ artworks # <<>>

(***************************************************************************)
(* C5.  A submit with an input that is not a number or is not positive     *)
(* changes nothing: selection, badge, counter and every other cell are     *)
(* unchanged, no fetch is started and no toast is shown.                   *)
(***************************************************************************)
C5_InvalidSubmitNoOp ==
  [][(IsRejectedText(rowsToSelect) /\ handleRowSelectionSubmit) =>
       /\ UNCHANGED <<selectedArtworks, totalSelected, remainingToSelect, inflight,
                      loading, artworks, currentPage, totalRecords, rows, rowsToSelect>>
       /\ toasts' = 0]_vars

\* "-3" submitted in the middle of a sweep
C5_Witness ==
  /\ rowsToSelect = <<"-", "3">>
  /\ remainingToSelect > 0
  /\ selectedArtworks # EmptyObject

(***************************************************************************)
(* C6.  The counter is never negative.                                     *)
(***************************************************************************)
C6_CounterNonNegative == remainingToSelect \in Nat

\* a submit of 1 whose fetch is still outstanding, followed by a manual
\* change reporting two records: 1 - 2 is floored at zero
C6_Witness ==
  /\ run.ended = "selected"
  /\ run.n = 1 /\ run.k = 0
  /\ totalSelected = 2
  /\ remainingToSelect = 0
  /\ inflight # EmptyBag

(***************************************************************************)
(* C7.  A successful completion with the counter c > 0 adds exactly the    *)
(* leading k = min(c, L) records of its page to the selection, lowers the  *)
(* counter by k and raises the badge by k.                                 *)
(***************************************************************************)
C7_SweepAddsLeading ==
  [][\A f \in Outstanding :
       (remainingToSelect > 0 /\ FetchSucceeds(f)) =>
         LET lead == LeadingIds(f, remainingToSelect)
         IN  /\ SelectedIds' = SelectedIds \cup lead
             /\ remainingToSelect' = remainingToSelect - Cardinality(lead)
             /\ totalSelected' = totalSelected + Cardinality(lead)]_vars

(***************************************************************************)
(* C8.  A manual selection change made while the counter is positive       *)
(* lowers the counter by the number of records it newly added, floored at  *)
(* zero.                                                                   *)
(***************************************************************************)
C8_ManualDecrementsByAdded ==
  [][(remainingToSelect > 0 /\ ManualChange) =>
       remainingToSelect' =
         Max(0, remainingToSelect - Cardinality(SelectedIds' \ SelectedIds))]_vars

(***************************************************************************)
(* C9.  A manual selection change reporting the records R makes the        *)
(* selection exactly R, keyed by id, and the badge |R|; the displayed      *)
(* page, the page index, the page size and the total are unchanged.        *)
(***************************************************************************)
C9_ManualReplaces ==
  [][\A R \in Selections :
       onSelectionChange(R) =>
         /\ SelectedIds' = IdsOf(R)
         /\ \A i \in DOMAIN R : selectedArtworks'[R[i].id] = R[i]
         /\ totalSelected' = Cardinality(IdsOf(R))
         /\ UNCHANGED <<artworks, currentPage, rows, totalRecords>>]_vars

\* a manual change that left two records selected, one of them of another page
C9_Witness ==
  /\ run.ended = "selected"
  /\ Cardinality(SelectedIds) = 2
  /\ totalSelected = 2
  /\ SelectedIds \ IdsOf(artworks) # {}
  /\ artworks # <<>>

(***************************************************************************)
(* C10.  While the counter is zero a fetch completion, successful or not,  *)
(* changes neither the selection nor the badge nor the counter.            *)
(***************************************************************************)
C10_NoSweepAtZero ==
  [][(remainingToSelect = 0 /\ Completion) => UNCHANGED tracker]_vars

\* a page loaded after a sweep had used the counter up
C10_Witness ==
  /\ run.on /\ run.n = 2 /\ run.first = 1 /\ run.k = 2
  /\ remainingToSelect = 0
  /\ SelectedIds = {1, 2}
  /\ IdsOf(artworks) = {3}

(***************************************************************************)
(* C11.  A page change, and the completion (successful or not) of the      *)
(* fetch a page change started, never remove a record from the selection.  *)
(***************************************************************************)
PageChange == \E event \in PageEvents : onPage(event)

C11_SelectionPersists ==
  [][/\ PageChange => SelectedIds \subseteq SelectedIds'
     /\ \A f \in Outstanding :
          (/\ f.by = "effect"
           /\ FetchSucceeds(f) \/ \E kind \in FailureKinds : FetchFails(f, kind))
            => SelectedIds \subseteq SelectedIds']_vars

(***************************************************************************)
(* C12.  A failed fetch leaves the displayed records, the total, the       *)
(* selection, the badge and the counter as they were, clears the loading   *)
(* indicator and shows exactly one error notification.                     *)
(***************************************************************************)
C12_FailureLeavesState ==
  [][\A f \in Outstanding, kind \in FailureKinds :
       FetchFails(f, kind) =>
         /\ UNCHANGED <<artworks, totalRecords, selectedArtworks, totalSelected,
                        remainingToSelect>>
         /\ loading' = FALSE
         /\ toasts' = 1]_vars

(***************************************************************************)
(* C13.  Whenever no fetch is outstanding and the most recently started    *)
(* fetch has succeeded, the displayed records are those of the current     *)
(* page index and page size, which is the page that fetch asked for.       *)
(***************************************************************************)
C13_LatestPageWins ==
  (inflight = EmptyBag /\ latestOk) => artworks = TransformedData(currentPage, rows)

(***************************************************************************)
(* C14.  The successful completion of a fetch whose page is no longer the  *)
(* latest requested page (the current page index: every call of            *)
(* fetchArtworks asks for it) changes neither the selection nor the badge  *)
(* nor the counter.  Such a completion exists only in a behaviour where    *)
(* two fetches were outstanding together, so a behaviour that violates     *)
(* this also violates the other branch of the claim, that at most one      *)
(* fetch is outstanding at any time.                                       *)
(***************************************************************************)
Stale(f) == f.page # currentPage

C14_StaleDoesNotSweep ==
  [][\A f \in Outstanding : (Stale(f) /\ FetchSucceeds(f)) => UNCHANGED tracker]_vars

(***************************************************************************)
(* C15.  No two fetches for the same page index and page size are          *)
(* outstanding together.                                                   *)
(***************************************************************************)
C15_NoDuplicateFetch ==
  \A f, g \in Outstanding :
    (f.page = g.page /\ f.rows = g.rows) => (f = g /\ CopiesIn(f, inflight) = 1)

(***************************************************************************)
(* C16.  The loading indicator is on exactly when a fetch is outstanding.  *)
(***************************************************************************)
C16_LoadingIffOutstanding == loading <=> (inflight # EmptyBag)

(***************************************************************************)
(* C17.  A fetch that fails while the counter is c > 0 leaves the counter  *)
(* at c, and a successful completion with the counter at c > 0 (so in      *)
(* particular the first one after such a failure) sweeps the leading       *)
(* min(c, L) records of its page: they are in the selection afterwards, as *)
(* the data source holds them, and the counter is lower by their number.   *)
(***************************************************************************)
C17_FailurePausesSweep ==
  [][\A f \in Outstanding :
       /\ (remainingToSelect > 0 /\ \E kind \in FailureKinds : FetchFails(f, kind))
            => remainingToSelect' = remainingToSelect
       /\ (remainingToSelect > 0 /\ FetchSucceeds(f)) =>
            LET lead == LeadingIds(f, remainingToSelect)
            IN  /\ lead \subseteq SelectedIds'
                /\ \A id \in lead : selectedArtworks'[id] = Stored(id)
                /\ remainingToSelect' = remainingToSelect - Cardinality(lead)]_vars

\* a fetch failed with the counter at 3; the next completion, of page 2,
\* swept its one record
C17_Witness ==
  /\ run.ended = "resumed" /\ run.n = 3
  /\ currentPage = 2
  /\ remainingToSelect = 2
  /\ SelectedIds = {3}

(***************************************************************************)
(* C18.  The Date cell of a record, as the table stores it, shows the      *)
(* single year when date_start equals date_end, "start - end" when they    *)
(* differ, and "N/A" when the response had neither date.  Checked for the  *)
(* displayed records and for every pair of dates of DateYears.             *)
(***************************************************************************)
\* values of date_start and date_end in a response
DateYears == {Null, Num(0), Num(1900), Num(1905), Num(0 - 500)}

RowOf(s, e) ==
  Transform([id |-> 1, place_of_origin |-> Null, date_start |-> s, date_end |-> e])

\* the text of the Date cell
DateCell(row) == ToText(dateTemplate(row))

DateCellOK(raw, row) ==
  /\ (raw.date_start = Null /\ raw.date_end = Null) => DateCell(row) = "N/A"
  /\ (row.date_start = row.date_end /\ row.date_start.t = "num")
       => DateCell(row) = ToText(row.date_start)
  /\ row.date_start # row.date_end
       => DateCell(row) = ToText(row.date_start) \o " - " \o ToText(row.date_end)

C18_DateColumn ==
  /\ DateCell(RowOf(Num(1900), Num(1900))) = "1900"
  /\ DateCell(RowOf(Num(1900), Num(1905))) = "1900 - 1905"
  /\ DateCell(RowOf(Null, Null)) = "N/A"
  /\ \A s, e \in DateYears :
       DateCellOK([date_start |-> s, date_end |-> e], RowOf(s, e))
  /\ \A i \in DOMAIN artworks : DateCellOK(RawArtwork(artworks[i].id), artworks[i])

\* page 2 is displayed: its record has neither date
C18_Witness ==
  /\ IdsOf(artworks) = {3}
  /\ RawArtwork(3).date_start = Null /\ RawArtwork(3).date_end = Null
  /\ DateCell(artworks[1]) = "N/A"

(***************************************************************************)
(* C19.  The badge equals the number of records of the selection.          *)
(***************************************************************************)
C19_BadgeIsSelectionSize == totalSelected = Cardinality(SelectedIds)

(***************************************************************************)
(* C20.  Badge + counter = N from an accepted submit of N until the next   *)
(* manual change, Clear Selection or submit: the submit makes the sum N,   *)
(* and the sum changes only in a step that is a manual change, a Clear     *)
(* Selection or an accepted submit, so never in a completion or a failure  *)
(* of any fetch, a page change, typing or a rejected submit.               *)
(***************************************************************************)
C20_Conservation ==
  [][/\ (IsPositiveCount(rowsToSelect) /\ handleRowSelectionSubmit)
          => totalSelected' + remainingToSelect' = DigitsValue(rowsToSelect, 0)
     /\ \/ totalSelected' + remainingToSelect' = totalSelected + remainingToSelect
        \/ ClearSelection
        \/ SubmitAccepted
        \/ ManualChange]_vars

\* a submit of 3 made while a fetch was outstanding: both completions swept,
\* the second from its own captured selection, and the sum is still 3
C20_Witness ==
  /\ phase = "bulk"
  /\ inflight = EmptyBag
  /\ totalSelected = 3
  /\ remainingToSelect = 0
  /\ SelectedIds = {1}

====
